---- MODULE Spec2Model ----
(***************************************************************************)
(* A model of awsipranges: the in-memory index of AWS IP ranges            *)
(* (core/aws_ip_ranges.rs), the CIDR helpers it is built on                *)
(* (core/utils.rs), the filter and its builder (core/filter.rs), and the   *)
(* client that fetches and caches the manifest (core/client.rs).           *)
(*                                                                         *)
(* An IpNetwork is [fam, addr, prefix]: addr is the address as written,    *)
(* a tuple of 4 octets (V4) or 8 sixteen-bit groups (V6); the ipnetwork    *)
(* crate keeps the host bits of a parsed CIDR, so addr may have bits set   *)
(* below the prefix length.                                                *)
(***************************************************************************)
EXTENDS Integers, Sequences, FiniteSets

VARIABLES json, pc, root, cur, op, watch, fb, client, now, file, call, hist

coreVars == <<json, pc, root, cur, op, watch, fb>>
clientVars == <<client, now, file, call, hist>>
vars == <<json, pc, root, cur, op, watch, fb, client, now, file, call, hist>>

(***************************************************************************)
(* Bounds of the model.                                                    *)
(***************************************************************************)
MaxRows == 2
MaxQueries == 2
MaxNames == 2
MaxFamilyCalls == 3
MaxRetryCount == 3

(***************************************************************************)
(* Option and outcome values.                                              *)
(***************************************************************************)
None == [some |-> FALSE]
Some(v) == [some |-> TRUE, value |-> v]

Panic == [kind |-> "panic"]
Returned(v) == [kind |-> "returned", value |-> v]

(***************************************************************************)
(* IP networks (ipnetwork crate, as used by core/utils.rs).                *)
(***************************************************************************)
V4(a, b, c, d, p) == [fam |-> "V4", addr |-> <<a, b, c, d>>, prefix |-> p]
V6(a, b, c, p) == [fam |-> "V6", addr |-> <<a, b, c, 0, 0, 0, 0, 0>>, prefix |-> p]
V6h(a, b, c, h, p) == [fam |-> "V6", addr |-> <<a, b, c, 0, 0, 0, 0, h>>, prefix |-> p]

GroupBits(fam) == IF fam = "V4" THEN 8 ELSE 16
GroupCount(fam) == IF fam = "V4" THEN 4 ELSE 8
MaxPrefixLen(fam) == GroupBits(fam) * GroupCount(fam)

\* Number of bits of group i that lie inside a prefix of length p.
KeptBits(fam, p, i) ==
    LET before == (i - 1) * GroupBits(fam)
    IN  IF p <= before THEN 0
        ELSE IF p >= before + GroupBits(fam) THEN GroupBits(fam)
        ELSE p - before

HostSpan(fam, p, i) == 2 ^ (GroupBits(fam) - KeptBits(fam, p, i))

\* Ipv4Network::network / Ipv6Network::network: addr & mask.
network(n) ==
    [i \in 1..GroupCount(n.fam) |->
        n.addr[i] - (n.addr[i] % HostSpan(n.fam, n.prefix, i))]

\* Ipv4Network::broadcast / Ipv6Network::broadcast: addr | !mask.
broadcast(n) ==
    [i \in 1..GroupCount(n.fam) |->
        n.addr[i] - (n.addr[i] % HostSpan(n.fam, n.prefix, i))
            + HostSpan(n.fam, n.prefix, i) - 1]

\* Ord of Ipv4Addr / Ipv6Addr: the address as a big-endian number.
AddrLess(a, b) ==
    \E i \in 1..Len(a) : a[i] < b[i] /\ \A j \in 1..(i - 1) : a[j] = b[j]

AddrLeq(a, b) == a = b \/ AddrLess(a, b)

\* Derived Ord of IpNetwork: variant (V4 before V6), then address, then prefix.
NetLess(a, b) ==
    \/ a.fam = "V4" /\ b.fam = "V6"
    \/ a.fam = b.fam /\ AddrLess(a.addr, b.addr)
    \/ a.fam = b.fam /\ a.addr = b.addr /\ a.prefix < b.prefix

NetLeq(a, b) == a = b \/ NetLess(a, b)

network_prefix(ip_network) ==
    [fam |-> ip_network.fam, addr |-> network(ip_network), prefix |-> ip_network.prefix]

\* Ipv4Network::new fails when the prefix exceeds the family's width.
new_network_prefix(ip_network, mask_bits) ==
    IF mask_bits > MaxPrefixLen(ip_network.fam)
    THEN [ok |-> FALSE]
    ELSE [ok |-> TRUE,
          value |-> network_prefix([fam |-> ip_network.fam, addr |-> ip_network.addr,
                                    prefix |-> mask_bits])]

\* Ipv4Network::is_subnet_of: other.ip() <= self.ip() && other.broadcast() >= self.broadcast()
is_subnet_of(self, other) ==
    /\ AddrLeq(other.addr, self.addr)
    /\ AddrLeq(broadcast(self), broadcast(other))

is_supernet_of(supernet, subnet) ==
    IF supernet.fam = subnet.fam THEN is_subnet_of(subnet, supernet) ELSE FALSE

(***************************************************************************)
(* Interned names.                                                         *)
(***************************************************************************)
get_rc_str_from_set(value, set) == IF value \in set THEN Some(value) ELSE None

\* Byte order of the names the model uses (str's Ord).
NameOrder == <<"EC2", "S3", "us-east-1", "us-west-1">>
NameRank(n) == CHOOSE i \in 1..Len(NameOrder) : NameOrder[i] = n
NameLess(a, b) == NameRank(a) < NameRank(b)

RECURSIVE NamesAscending(_)
NamesAscending(S) ==
    IF S = {} THEN <<>>
    ELSE LET m == CHOOSE x \in S : \A y \in S : x = y \/ NameLess(x, y)
         IN  <<m>> \o NamesAscending(S \ {m})

\* Ord of BTreeSet<Rc<str>>: lexicographic over the elements in ascending order.
RECURSIVE NameSeqLess(_, _)
NameSeqLess(s, t) ==
    IF t = <<>> THEN FALSE
    ELSE IF s = <<>> THEN TRUE
    ELSE IF Head(s) # Head(t) THEN NameLess(Head(s), Head(t))
    ELSE NameSeqLess(Tail(s), Tail(t))

(***************************************************************************)
(* AwsIpPrefix (core/aws_ip_prefix.rs): the derived Ord compares prefix,   *)
(* region, network_border_group, services in that order.                   *)
(***************************************************************************)
AwsIpPrefix(p, r, g, s) ==
    [prefix |-> p, region |-> r, network_border_group |-> g, services |-> s]

AwsIpPrefixLess(a, b) ==
    IF a.prefix # b.prefix THEN NetLess(a.prefix, b.prefix)
    ELSE IF a.region # b.region THEN NameLess(a.region, b.region)
    ELSE IF a.network_border_group # b.network_border_group
         THEN NameLess(a.network_border_group, b.network_border_group)
    ELSE NameSeqLess(NamesAscending(a.services), NamesAscending(b.services))

(***************************************************************************)
(* AwsIpRanges (core/aws_ip_ranges.rs).  prefixes is the BTreeMap, a       *)
(* function from its keys to the records stored under them.                *)
(***************************************************************************)
DefaultCreateDate == "1970-01-01-00-00-00"

AwsIpRangesDefault ==
    [sync_token |-> "", create_date |-> DefaultCreateDate,
     regions |-> {}, network_border_groups |-> {}, services |-> {},
     prefixes |-> [k \in {} |-> None]]

Values(map) == {map[k] : k \in DOMAIN map}

\* FromMap with the regions collected from the wrong field.
FromMapRegionsFromGroups(value) ==
    [AwsIpRangesDefault EXCEPT
        !.prefixes = value,
        !.regions = {value[k].network_border_group : k \in DOMAIN value},
        !.network_border_groups = {value[k].network_border_group : k \in DOMAIN value},
        !.services = UNION {value[k].services : k \in DOMAIN value}]

\* impl From<BTreeMap<IpNetwork, AwsIpPrefix>> for AwsIpRanges
FromMap(value) ==
    [AwsIpRangesDefault EXCEPT
        !.prefixes = value,
        !.regions = {value[k].region : k \in DOMAIN value},
        !.network_border_groups = {value[k].network_border_group : k \in DOMAIN value},
        !.services = UNION {value[k].services : k \in DOMAIN value}]

\* impl From<BTreeSet<AwsIpPrefix>> for AwsIpRanges: the set is collected into a
\* map in ascending order, so of two records with one prefix the greater stays.
FromSet(value) ==
    FromMap([k \in {r.prefix : r \in value} |->
                    CHOOSE r \in value :
                      /\ r.prefix = k
                      /\ \A o \in value : o.prefix = k => (o = r \/ AwsIpPrefixLess(o, r))])

(***************************************************************************)
(* AwsIpRanges::from_json.  json is the manifest text: decodes says        *)
(* whether json::parse accepts it, the other fields are what it decodes    *)
(* to.  A row is [ip_prefix, region, network_border_group, service].       *)
(***************************************************************************)
Ok(v) == [kind |-> "ok", value |-> v]
Err == [kind |-> "err"]

RowNames(j, field) ==
    {j.prefixes[i][field] : i \in 1..Len(j.prefixes)}
        \cup {j.ipv6_prefixes[i][field] : i \in 1..Len(j.ipv6_prefixes)}

\* InsertRow whose and_modify replaces the services instead of inserting into them.
InsertRowReplacesServices(ranges, row) ==
    LET key == row.ip_prefix
    IN  IF key \in DOMAIN ranges.prefixes
        THEN LET prefix == ranges.prefixes[key]
             IN  IF prefix.region # row.region THEN Panic
                 ELSE IF prefix.network_border_group # row.network_border_group THEN Panic
                 ELSE Returned([ranges EXCEPT !.prefixes[key].services = {row.service}])
        ELSE Returned([ranges EXCEPT
                !.prefixes = [k \in DOMAIN ranges.prefixes \cup {key} |->
                    IF k = key
                               THEN AwsIpPrefix(key, row.region, row.network_border_group,
                                                {row.service})
                               ELSE ranges.prefixes[k]]])

\* One pass of the loop body: entry(key).and_modify(..).or_insert(..).
\* The result is Panic when an unwrap or an assert_eq! fails.
InsertRow(ranges, row) ==
    LET key == row.ip_prefix
        region == get_rc_str_from_set(row.region, ranges.regions)
        group == get_rc_str_from_set(row.network_border_group, ranges.network_border_groups)
        service == get_rc_str_from_set(row.service, ranges.services)
    IN  IF ~region.some \/ ~group.some \/ ~service.some THEN Panic
        ELSE IF key \in DOMAIN ranges.prefixes
        THEN LET prefix == ranges.prefixes[key]
             IN  IF prefix.region # region.value THEN Panic
                 ELSE IF prefix.network_border_group # group.value THEN Panic
                 ELSE Returned([ranges EXCEPT
                        !.prefixes[key].services = @ \cup {service.value}])
        ELSE Returned([ranges EXCEPT
                !.prefixes = [k \in DOMAIN ranges.prefixes \cup {key} |->
                    IF k = key
                               THEN AwsIpPrefix(key, region.value, group.value,
                                                {service.value})
                               ELSE ranges.prefixes[k]]])

RECURSIVE InsertRows(_, _)
InsertRows(acc, rows) ==
    IF acc.kind = "panic" \/ rows = <<>> THEN acc
    ELSE InsertRows(InsertRow(acc.value, Head(rows)), Tail(rows))

from_json(j) ==
    IF ~j.decodes THEN Err
    ELSE LET start == [AwsIpRangesDefault EXCEPT
                        !.sync_token = j.sync_token,
                        !.create_date = j.create_date,
                        !.regions = RowNames(j, "region"),
                        !.network_border_groups =
                            RowNames(j, "network_border_group"),
                        !.services = RowNames(j, "service")]
             ipv4 == InsertRows(Returned(start), j.prefixes)
             ipv6 == InsertRows(ipv4, j.ipv6_prefixes)
         IN  IF ipv6.kind = "panic" THEN Panic ELSE Ok(ipv6.value)

(***************************************************************************)
(* Lookups.  BTreeMap::range panics when its start is greater than its     *)
(* end; RangeKeys is the keys of the range in ascending order.             *)
(***************************************************************************)
LowerBoundBitsV4 == 8
LowerBoundBitsV6 == 16

RECURSIVE NetsAscending(_)
NetsAscending(S) ==
    IF S = {} THEN <<>>
    ELSE LET m == CHOOSE x \in S : \A y \in S : NetLeq(x, y)
         IN  <<m>> \o NetsAscending(S \ {m})

RangeKeys(prefixes, lower_bound, upper_bound) ==
    NetsAscending({k \in DOMAIN prefixes : NetLeq(lower_bound, k) /\ NetLeq(k, upper_bound)})

lower_bound_of(value) ==
    IF value.fam = "V4" THEN new_network_prefix(value, LowerBoundBitsV4)
    ELSE new_network_prefix(value, LowerBoundBitsV6)

get_prefix(ranges, value) ==
    IF value \in DOMAIN ranges.prefixes THEN Some(ranges.prefixes[value]) ELSE None

\* .rev().find(..): the last key of the range whose record is a supernet.
RECURSIVE FindLast(_, _, _)
FindLast(prefixes, keys, value) ==
    IF keys = <<>> THEN None
    ELSE LET aws_ip_prefix == prefixes[keys[Len(keys)]]
         IN  IF is_supernet_of(aws_ip_prefix.prefix, value) THEN Some(aws_ip_prefix)
             ELSE FindLast(prefixes, SubSeq(keys, 1, Len(keys) - 1), value)

get_longest_match_prefix(ranges, value) ==
    LET lower_bound == lower_bound_of(value)
        upper_bound == network_prefix(value)
    IN  IF ~lower_bound.ok THEN Panic
        ELSE IF NetLess(upper_bound, lower_bound.value) THEN Panic
        ELSE Returned(FindLast(ranges.prefixes,
                               RangeKeys(ranges.prefixes, lower_bound.value, upper_bound),
                               value))

get_supernet_prefixes(ranges, value) ==
    LET lower_bound == lower_bound_of(value)
        upper_bound == network_prefix(value)
    IN  IF ~lower_bound.ok THEN Panic
        ELSE IF NetLess(upper_bound, lower_bound.value) THEN Panic
        ELSE LET keys == RangeKeys(ranges.prefixes, lower_bound.value, upper_bound)
                 aws_ip_prefixes ==
                    {ranges.prefixes[keys[i]] : i \in
                        {n \in 1..Len(keys) :
                            is_supernet_of(ranges.prefixes[keys[n]].prefix, value)}}
             IN  IF aws_ip_prefixes # {} THEN Returned(Some(aws_ip_prefixes))
                 ELSE Returned(None)

(***************************************************************************)
(* AwsIpRanges::search.  acc carries the SearchResults under construction  *)
(* and result_aws_ip_prefixes; a panic of get_supernet_prefixes ends it.   *)
(***************************************************************************)
\* SearchRecord that lacks the else: a found prefix is also put in prefixes_not_found.
SearchRecordAlsoNotFound(sr, prefix, found) ==
    [sr EXCEPT
        !.result_aws_ip_prefixes = IF found.some THEN @ \cup found.value ELSE @,
        !.prefix_matches =
            IF found.some
            THEN [k \in DOMAIN sr.prefix_matches \cup {prefix} |->
                    IF k = prefix THEN found.value ELSE sr.prefix_matches[k]]
            ELSE @,
        !.prefixes_not_found = @ \cup {prefix}]

\* The loop body after get_supernet_prefixes: sr is the SearchResults under
\* construction together with result_aws_ip_prefixes.
SearchRecord(sr, prefix, found) ==
    IF found.some
    THEN [sr EXCEPT
            !.result_aws_ip_prefixes = @ \cup found.value,
            !.prefix_matches =
                [k \in DOMAIN sr.prefix_matches \cup {prefix} |->
                    IF k = prefix THEN found.value ELSE sr.prefix_matches[k]]]
    ELSE [sr EXCEPT !.prefixes_not_found = @ \cup {prefix}]

RECURSIVE SearchLoop(_, _, _)
SearchLoop(ranges, acc, values) ==
    IF acc.kind = "panic" \/ values = <<>> THEN acc
    ELSE LET found == get_supernet_prefixes(ranges, Head(values))
         IN  IF found.kind = "panic" THEN Panic
             ELSE SearchLoop(ranges,
                             Returned(SearchRecord(acc.value, Head(values), found.value)),
                             Tail(values))

search(ranges, values) ==
    LET looped == SearchLoop(ranges,
                    Returned([result_aws_ip_prefixes |-> {},
                              prefix_matches |-> [k \in {} |-> {}],
                              prefixes_not_found |-> {}]),
                    values)
    IN  IF looped.kind = "panic" THEN Panic
        ELSE Returned(
            [aws_ip_ranges |->
                [FromSet(looped.value.result_aws_ip_prefixes) EXCEPT
                    !.sync_token = ranges.sync_token,
                    !.create_date = ranges.create_date],
             prefix_matches |-> looped.value.prefix_matches,
             prefixes_not_found |-> looped.value.prefixes_not_found])

(***************************************************************************)
(* Filter (core/filter.rs): each field is None or Some(..).                *)
(***************************************************************************)
is_ipv4(prefix_type) == prefix_type = "IPv4"
is_ipv6(prefix_type) == prefix_type = "IPv6"

match_prefix_type(f, aws_ip_prefix) ==
    IF f.prefix_type.some
    THEN IF is_ipv4(f.prefix_type.value) /\ aws_ip_prefix.prefix.fam = "V4" THEN TRUE
         ELSE is_ipv6(f.prefix_type.value) /\ aws_ip_prefix.prefix.fam = "V6"
    ELSE TRUE

match_regions(f, aws_ip_prefix) ==
    IF f.regions.some THEN aws_ip_prefix.region \in f.regions.value ELSE TRUE

match_network_border_groups(f, aws_ip_prefix) ==
    IF f.network_border_groups.some
    THEN aws_ip_prefix.network_border_group \in f.network_border_groups.value
    ELSE TRUE

\* match_services that asks for every service of the filter.
match_servicesAll(f, aws_ip_prefix) ==
    IF f.services.some
    THEN f.services.value \subseteq aws_ip_prefix.services
    ELSE TRUE

match_services(f, aws_ip_prefix) ==
    IF f.services.some
    THEN (f.services.value \cap aws_ip_prefix.services) # {}
    ELSE TRUE

include_prefix(f, prefix) ==
    /\ match_prefix_type(f, prefix)
    /\ match_regions(f, prefix)
    /\ match_network_border_groups(f, prefix)
    /\ match_services(f, prefix)

\* filter that leaves the derived index its default sync_token and create_date.
filterDefaultMetadata(ranges, f) ==
    LET kept == {k \in DOMAIN ranges.prefixes : include_prefix(f, ranges.prefixes[k])}
    IN  FromMap([k \in kept |-> ranges.prefixes[k]])

filter(ranges, f) ==
    LET kept == {k \in DOMAIN ranges.prefixes : include_prefix(f, ranges.prefixes[k])}
    IN  [FromMap([k \in kept |-> ranges.prefixes[k]]) EXCEPT
            !.sync_token = ranges.sync_token,
            !.create_date = ranges.create_date]

(***************************************************************************)
(* FilterBuilder (core/filter.rs).  A builder is the record of its four    *)
(* optional fields; the index it borrows is passed to the setters.  The    *)
(* error of a setter is the message it formats: its text and the name.     *)
(***************************************************************************)
get_region(ranges, value) == get_rc_str_from_set(value, ranges.regions)

get_network_border_group(ranges, value) ==
    get_rc_str_from_set(value, ranges.network_border_groups)

get_service(ranges, value) == get_rc_str_from_set(value, ranges.services)

ErrMessage(text, value) == [kind |-> "err", message |-> <<text, value>>]

FilterBuilder_new ==
    [prefix_type |-> None, regions |-> None, network_border_groups |-> None,
     services |-> None]

FilterBuilder_ipv4(self) ==
    [self EXCEPT !.prefix_type =
        IF @ = None THEN Some("IPv4")
        ELSE IF @ = Some("IPv4") THEN Some("IPv4")
        ELSE None]

\* FilterBuilder_ipv6 that replaces an IPv4 restriction instead of removing it.
FilterBuilder_ipv6Replaces(self) ==
    [self EXCEPT !.prefix_type = Some("IPv6")]

FilterBuilder_ipv6(self) ==
    [self EXCEPT !.prefix_type =
        IF @ = None THEN Some("IPv6")
        ELSE IF @ = Some("IPv6") THEN Some("IPv6")
        ELSE None]

\* regions.into_iter().map(..).collect::<Result<BTreeSet<_>>>(): the names in
\* order, stopping at the first that does not resolve.
RECURSIVE CollectRegions(_, _, _)
CollectRegions(ranges, names, acc) ==
    IF names = <<>> THEN Ok(acc)
    ELSE LET region == get_region(ranges, Head(names))
         IN  IF region.some
             THEN CollectRegions(ranges, Tail(names), acc \cup {region.value})
             ELSE ErrMessage("Invalid region", Head(names))

RECURSIVE CollectNetworkBorderGroups(_, _, _)
CollectNetworkBorderGroups(ranges, names, acc) ==
    IF names = <<>> THEN Ok(acc)
    ELSE LET group == get_network_border_group(ranges, Head(names))
         IN  IF group.some
             THEN CollectNetworkBorderGroups(ranges, Tail(names), acc \cup {group.value})
             ELSE ErrMessage("Invalid network border group", Head(names))

\* CollectServices that leaves out the names that do not resolve.
RECURSIVE CollectServicesSkipsUnknown(_, _, _)
CollectServicesSkipsUnknown(ranges, names, acc) ==
    IF names = <<>> THEN Ok(acc)
    ELSE LET service == get_service(ranges, Head(names))
         IN  CollectServicesSkipsUnknown(ranges, Tail(names),
                IF service.some THEN acc \cup {service.value} ELSE acc)

RECURSIVE CollectServices(_, _, _)
CollectServices(ranges, names, acc) ==
    IF names = <<>> THEN Ok(acc)
    ELSE LET service == get_service(ranges, Head(names))
         IN  IF service.some
             THEN CollectServices(ranges, Tail(names), acc \cup {service.value})
             ELSE ErrMessage("Invalid service", Head(names))

FilterBuilder_regions(self, ranges, names) ==
    LET regions == CollectRegions(ranges, names, {})
    IN  IF regions.kind = "err" THEN regions
        ELSE Ok([self EXCEPT !.regions = Some(regions.value)])

FilterBuilder_network_border_groups(self, ranges, names) ==
    LET network_border_groups == CollectNetworkBorderGroups(ranges, names, {})
    IN  IF network_border_groups.kind = "err" THEN network_border_groups
        ELSE Ok([self EXCEPT !.network_border_groups = Some(network_border_groups.value)])

FilterBuilder_services(self, ranges, names) ==
    LET services == CollectServices(ranges, names, {})
    IN  IF services.kind = "err" THEN services
        ELSE Ok([self EXCEPT !.services = Some(services.value)])

FilterBuilder_build(self) ==
    [prefix_type |-> self.prefix_type, regions |-> self.regions,
     network_border_groups |-> self.network_border_groups, services |-> self.services]

Filter_ipv4(f) == IF f.prefix_type = None THEN TRUE ELSE is_ipv4(f.prefix_type.value)

Filter_ipv6(f) == IF f.prefix_type = None THEN TRUE ELSE is_ipv6(f.prefix_type.value)

(***************************************************************************)
(* Client (core/client.rs).  A body is [text, valid]: valid says whether   *)
(* the text parses as JSON.  The cache file is [exists, body, modified,    *)
(* readable, writable]: modified is its modification time in milliseconds, *)
(* readable whether read_to_string succeeds, writable whether write does.  *)
(* Time is counted in milliseconds.                                        *)
(***************************************************************************)
ClientErr(e) == [kind |-> "err", error |-> e]

\* ClientBuilder::default
DefaultClient ==
    [cache_time |-> 86400, retry_count |-> 4, retry_initial_delay |-> 200,
     retry_backoff_factor |-> 2, retry_timeout |-> 5000]

\* validate_json that accepts every body.
validate_jsonAcceptsAll(body) == Ok(body)

validate_json(body) == IF body.valid THEN Ok(body) ELSE ClientErr("Invalid JSON")

get_json_from_file(f) ==
    IF f.exists /\ f.readable THEN validate_json(f.body) ELSE ClientErr("io")

\* fs::write creates or truncates the file: the file afterwards and the result.
cache_json_to_file(f, body, time) ==
    IF f.writable
    THEN [file |-> [exists |-> TRUE, body |-> body, modified |-> time,
                    readable |-> IF f.exists THEN f.readable ELSE TRUE,
                    writable |-> TRUE],
          result |-> Ok(TRUE)]
    ELSE [file |-> f, result |-> ClientErr("io")]

\* get_json_fetched that returns the error of a failed cache write.
get_json_fetchedOrWriteError(cached, fresh_url_json) ==
    IF cached.result.kind = "err" THEN cached.result ELSE Ok(fresh_url_json)

\* let _ = self.cache_json_to_file(&fresh_url_json); return Ok(fresh_url_json);
get_json_fetched(cached, fresh_url_json) == Ok(fresh_url_json)

\* The u64 of the settings, as its bytes from the lowest: the numbers of the
\* model are below 2^31, the products of the code are not.
U64Bits == 64

ToBytes(n) ==
    [i \in 1..(U64Bits \div 8) |-> IF i <= 4 THEN (n \div (256 ^ (i - 1))) % 256 ELSE 0]

FitsInt(x) == x[4] < 128 /\ \A i \in 5..(U64Bits \div 8) : x[i] = 0

ToInt(x) == x[1] + 256 * x[2] + 65536 * x[3] + 16777216 * x[4]

\* x is below 2^15: the product of two such numbers is below 2^31.
IsShort(x) == x[2] < 128 /\ \A i \in 3..(U64Bits \div 8) : x[i] = 0

\* The sum of a[i] * b[j] over the bytes with i + j - 1 = k, from byte i on.
RECURSIVE ColumnSum(_, _, _, _)
ColumnSum(a, b, k, i) ==
    IF i > Len(a) THEN 0
    ELSE (IF k + 1 - i \in DOMAIN b THEN a[i] * b[k + 1 - i] ELSE 0)
         + ColumnSum(a, b, k, i + 1)

\* The bytes of the full product a * b from byte k on, carry coming in.
RECURSIVE ProductBytes(_, _, _, _)
ProductBytes(a, b, k, carry) ==
    IF k > Len(a) + Len(b) THEN <<>>
    ELSE LET t == ColumnSum(a, b, k, 1) + carry
         IN  <<t % 256>> \o ProductBytes(a, b, k + 1, t \div 256)

\* u64 * u64: the product modulo 2^64, and whether the product is 2^64 or more
\* (a panic with overflow checks, the wrapped value without).  The product of
\* two short numbers is taken at once, any other byte by byte.
mul(a, b) ==
    IF IsShort(a) /\ IsShort(b)
    THEN [value |-> ToBytes(ToInt(a) * ToInt(b)), overflow |-> FALSE]
    ELSE LET wide == ProductBytes(a, b, 1, 0)
         IN  [value |-> SubSeq(wide, 1, Len(a)),
              overflow |-> \E i \in (Len(a) + 1)..Len(wide) : wide[i] # 0]

\* u64::pow
RECURSIVE pow(_, _)
pow(base, exp) ==
    IF exp = 0 THEN [value |-> ToBytes(1), overflow |-> FALSE]
    ELSE LET rest == pow(base, exp - 1)
             last == mul(rest.value, base)
         IN  [value |-> last.value, overflow |-> rest.overflow \/ last.overflow]

\* Duration::from_millis(retry_initial_delay * retry_backoff_factor.pow(attempt))
delay_of(self, attempt) ==
    LET power == pow(ToBytes(self.retry_backoff_factor), attempt)
        delay == mul(ToBytes(self.retry_initial_delay), power.value)
    IN  [value |-> delay.value, overflow |-> power.overflow \/ delay.overflow]

\* retry_again that does not count the delay against retry_timeout.
retry_againWithoutDelay(self, elapsed, delay, attempt) ==
    /\ elapsed < self.retry_timeout
    /\ attempt < self.retry_count

\* (start_time.elapsed() + delay < max_elapsed_time) && (attempt < self.retry_count)
retry_again(self, elapsed, delay, attempt) ==
    /\ elapsed + delay < self.retry_timeout
    /\ attempt < self.retry_count

\* elapsed_secs that gives the milliseconds.
elapsed_secsInMillis(modified, time) ==
    IF modified > time THEN ClientErr("SystemTimeError")
    ELSE Ok(time - modified)

\* SystemTime::elapsed, then Duration::as_secs: an error when the time is ahead
\* of the clock, else the whole seconds since.
elapsed_secs(modified, time) ==
    IF modified > time THEN ClientErr("SystemTimeError")
    ELSE Ok((time - modified) \div 1000)

\* The head of get_json, up to the call of get_json_from_url: the outcome is
\* "return" with the result, or "url" with cache_exists and cache_is_fresh.
get_json_head(self, f, time) ==
    LET cache_exists == f.exists
        age == elapsed_secs(f.modified, time)
    IN  IF cache_exists /\ age.kind = "err"
        THEN [then |-> "return", result |-> age]
        ELSE LET cache_is_fresh == cache_exists /\ age.value <= self.cache_time
                 fresh_cached_json == get_json_from_file(f)
             IN  IF cache_is_fresh /\ fresh_cached_json.kind = "ok"
                 THEN [then |-> "return", result |-> fresh_cached_json]
                 ELSE [then |-> "url", cache_exists |-> cache_exists,
                       cache_is_fresh |-> cache_is_fresh]

\* The tail of get_json after get_json_from_url failed with url_result.
get_json_tail(f, cache_exists, cache_is_fresh, url_result) ==
    LET stale_cache_json == get_json_from_file(f)
    IN  IF cache_exists /\ ~cache_is_fresh /\ stale_cache_json.kind = "ok"
        THEN stale_cache_json
        ELSE url_result

(***************************************************************************)
(* Inputs.                                                                 *)
(***************************************************************************)
Regions == {"us-east-1", "us-west-1"}
NetworkBorderGroups == {"us-east-1", "us-west-1"}
Services == {"EC2", "S3"}

SeqsUpTo(S, n) == UNION {[1..k -> S] : k \in 0..n}

Rows(nets, regions, groups, services) ==
    {[ip_prefix |-> n, region |-> r, network_border_group |-> g, service |-> s] :
        n \in nets, r \in regions, g \in groups, s \in services}

Headers == {<<"1640995200", "2022-01-01-00-00-00">>, <<"1700000000", "2023-11-14-22-13-20">>}

Undecodable ==
    [decodes |-> FALSE, sync_token |-> "", create_date |-> "",
     prefixes |-> <<>>, ipv6_prefixes |-> <<>>]

\* The decoded manifests of at most MaxRows rows over the given IPv4 and IPv6
\* rows, and the text that does not decode.
RowSplits(rows4, rows6) ==
    UNION {UNION {[1..a -> rows4] \X [1..b -> rows6] : b \in 0..(MaxRows - a)} :
                a \in 0..MaxRows}

Manifests(headers, rows4, rows6) ==
    {Undecodable} \cup
    {[decodes |-> TRUE, sync_token |-> h[1], create_date |-> h[2],
      prefixes |-> p[1], ipv6_prefixes |-> p[2]] :
        h \in headers, p \in RowSplits(rows4, rows6)}

(***************************************************************************)
(* The state machine.  json is the manifest handed to from_json, root the  *)
(* index it built, cur the index the next call is made on (root, or the    *)
(* index the last filter or search derived), pc where the process stands.  *)
(* op is the last call: its name and, when watch is set, its arguments,    *)
(* the index it was made on and its outcome.  fb is the FilterBuilder in   *)
(* hand, or the Filter built from it, with the family calls made on it.    *)
(* client is the Client's configuration, now the clock, file the cache     *)
(* file, call where the get_json in progress stands, hist what it has done *)
(* so far: the GETs made, the milliseconds of sleep asked for, the cache   *)
(* file and the time it started with, the error of the last GET, whether a *)
(* delay overflowed, and the calls that returned before it.                *)
(***************************************************************************)
NoOp == [name |-> "none"]

NoBuilder == [state |-> "none"]

NoFile ==
    [exists |-> FALSE, body |-> [text |-> <<>>, valid |-> FALSE], modified |-> 0,
     readable |-> FALSE, writable |-> TRUE]

Idle == [at |-> "idle"]

NoHist ==
    [gets |-> 0, slept |-> 0, file |-> NoFile, called_at |-> 0, error |-> "none",
     overflowed |-> FALSE, past |-> <<>>]

Seen(made) == IF watch THEN made ELSE [name |-> made.name]

InitWith(manifests, watched) ==
    /\ json \in manifests
    /\ pc = "start"
    /\ root = AwsIpRangesDefault
    /\ cur = AwsIpRangesDefault
    /\ op = NoOp
    /\ watch = watched
    /\ fb = NoBuilder
    /\ client = DefaultClient
    /\ now = 0
    /\ file = NoFile
    /\ call = Idle
    /\ hist = NoHist

FromJson ==
    /\ pc = "start"
    /\ LET out == from_json(json)
       IN  /\ pc' = IF out.kind = "ok" THEN "built"
                    ELSE IF out.kind = "err" THEN "failed" ELSE "aborted"
           /\ root' = IF out.kind = "ok" THEN out.value ELSE root
           /\ cur' = IF out.kind = "ok" THEN out.value ELSE cur
           /\ op' = [name |-> "from_json", out |-> out.kind]
    /\ UNCHANGED <<json, watch, fb, clientVars>>

GetPrefix(value) ==
    /\ pc = "built"
    /\ op' = Seen([name |-> "get_prefix", arg |-> value, on |-> cur,
                   out |-> Returned(get_prefix(cur, value))])
    /\ UNCHANGED <<json, pc, root, cur, watch, fb, clientVars>>

GetLongestMatchPrefix(value) ==
    /\ pc = "built"
    /\ LET out == get_longest_match_prefix(cur, value)
       IN  /\ op' = Seen([name |-> "get_longest_match_prefix", arg |-> value,
                          on |-> cur, out |-> out])
           /\ pc' = IF out.kind = "panic" THEN "aborted" ELSE pc
    /\ UNCHANGED <<json, root, cur, watch, fb, clientVars>>

GetSupernetPrefixes(value) ==
    /\ pc = "built"
    /\ LET out == get_supernet_prefixes(cur, value)
       IN  /\ op' = Seen([name |-> "get_supernet_prefixes", arg |-> value,
                          on |-> cur, out |-> out])
           /\ pc' = IF out.kind = "panic" THEN "aborted" ELSE pc
    /\ UNCHANGED <<json, root, cur, watch, fb, clientVars>>

Search(values) ==
    /\ pc = "built"
    /\ LET out == search(cur, values)
       IN  /\ op' = Seen([name |-> "search", arg |-> values, on |-> cur, out |-> out])
           /\ pc' = IF out.kind = "panic" THEN "aborted" ELSE pc
           /\ cur' = IF out.kind = "panic" THEN cur ELSE out.value.aws_ip_ranges
    /\ UNCHANGED <<json, root, watch, fb, clientVars>>

Filter(f) ==
    /\ pc = "built"
    /\ LET out == filter(cur, f)
       IN  /\ op' = Seen([name |-> "filter", arg |-> f, on |-> cur, out |-> Returned(out)])
           /\ cur' = out
    /\ UNCHANGED <<json, pc, root, watch, fb, clientVars>>

OptionalSets(S) == {None} \cup {Some(T) : T \in SUBSET S}

Filters ==
    [prefix_type : {None, Some("IPv4"), Some("IPv6")},
     regions : OptionalSets(Regions),
     network_border_groups : OptionalSets(NetworkBorderGroups),
     services : OptionalSets(Services)]

(***************************************************************************)
(* Spec: an index is built, then filtered and searched any number of       *)
(* times, each call made on the index the call before derived.             *)
(***************************************************************************)
ChainNets4 == {V4(10, 0, 0, 0, 8)}
ChainNets6 == {V6(8193, 3512, 0, 32)}

ChainQueries == {V4(10, 0, 0, 1, 32), V4(192, 168, 0, 0, 24), V6h(8193, 3512, 0, 1, 128)}

FieldsSet(f) ==
    Cardinality({i \in 1..4 :
        <<f.prefix_type, f.regions, f.network_border_groups, f.services>>[i].some})

\* The filters of at most one criterion; a chain of them is their conjunction.
ChainFilters == {f \in Filters : FieldsSet(f) <= 1}

Init ==
    InitWith(Manifests(Headers,
                Rows(ChainNets4, Regions, NetworkBorderGroups, Services),
                Rows(ChainNets6, Regions, NetworkBorderGroups, Services)),
             FALSE)

FilterStep == \E f \in ChainFilters : Filter(f)

SearchStep == \E values \in SeqsUpTo(ChainQueries, MaxQueries) : Search(values)

Next ==
    \/ FromJson
    \/ FilterStep
    \/ SearchStep

Spec == Init /\ [][Next]_vars

(***************************************************************************)
(* SpecQuery: one lookup or one search on a freshly built index, over      *)
(* manifests whose rows differ in their networks.                          *)
(***************************************************************************)
Fresh == pc = "built" /\ op.name = "from_json"

OneHeader == {<<"1640995200", "2022-01-01-00-00-00">>}

IndexNets4 ==
    {V4(10, 0, 0, 0, 8), V4(10, 0, 0, 0, 16), V4(10, 1, 0, 0, 16), V4(10, 0, 0, 0, 7),
     V4(10, 0, 0, 3, 8), V4(10, 0, 0, 1, 16)}
IndexNets6 == {V6(8193, 3512, 0, 32), V6(8193, 3512, 0, 48), V6(8192, 0, 0, 15)}

Queries ==
    {V4(10, 0, 0, 0, 8), V4(10, 0, 0, 1, 8), V4(10, 0, 0, 0, 32), V4(10, 0, 0, 5, 32),
     V4(10, 0, 0, 0, 24), V4(10, 1, 0, 0, 16), V4(10, 0, 0, 0, 4), V4(192, 168, 0, 0, 24),
     V6(8193, 3512, 0, 32), V6h(8193, 3512, 0, 1, 128), V6h(8193, 64206, 1, 1, 64),
     V6(8193, 3512, 0, 12)}

SearchQueries ==
    {V4(10, 0, 0, 0, 8), V4(10, 0, 0, 5, 32), V4(192, 168, 0, 0, 24), V4(10, 0, 0, 0, 4),
     V6h(8193, 3512, 0, 1, 128)}

InitQuery ==
    InitWith(Manifests(OneHeader,
                Rows(IndexNets4, {"us-east-1"}, {"us-east-1"}, {"EC2"}),
                Rows(IndexNets6, {"us-east-1"}, {"us-east-1"}, {"EC2"})),
             TRUE)

GetPrefixCall == Fresh /\ \E value \in Queries : GetPrefix(value)

GetLongestMatchPrefixCall == Fresh /\ \E value \in Queries : GetLongestMatchPrefix(value)

GetSupernetPrefixesCall == Fresh /\ \E value \in Queries : GetSupernetPrefixes(value)

SearchCall == Fresh /\ \E values \in SeqsUpTo(SearchQueries, MaxQueries) : Search(values)

NextQuery ==
    \/ FromJson
    \/ GetPrefixCall
    \/ GetLongestMatchPrefixCall
    \/ GetSupernetPrefixesCall
    \/ SearchCall

SpecQuery == InitQuery /\ [][NextQuery]_vars

(***************************************************************************)
(* SpecFilter: one filter applied to a freshly built index, over manifests *)
(* whose rows differ in their attributes.                                  *)
(***************************************************************************)
InitFilter ==
    InitWith(Manifests(OneHeader,
                Rows(ChainNets4, Regions, NetworkBorderGroups, Services),
                Rows(ChainNets6, Regions, NetworkBorderGroups, Services)),
             TRUE)

FilterCall == Fresh /\ \E f \in Filters : Filter(f)

NextFilter ==
    \/ FromJson
    \/ FilterCall

SpecFilter == InitFilter /\ [][NextFilter]_vars

(***************************************************************************)
(* SpecBuild: from_json alone, over manifests with repeated networks,      *)
(* differing attributes and host bits.                                     *)
(***************************************************************************)
BuildNets4 == {V4(10, 0, 0, 0, 8), V4(10, 0, 0, 1, 8), V4(10, 0, 0, 0, 16)}
BuildNets6 == {V6(8193, 3512, 0, 32), V6h(8193, 3512, 0, 1, 32)}

InitBuild ==
    InitWith(Manifests(OneHeader,
                Rows(BuildNets4, Regions, NetworkBorderGroups, Services),
                Rows(BuildNets6, Regions, NetworkBorderGroups, Services)),
             TRUE)

NextBuild == FromJson

SpecBuild == InitBuild /\ [][NextBuild]_vars

(***************************************************************************)
(* The FilterBuilder calls.  The builder borrows cur; a setter that fails  *)
(* consumes the builder.                                                   *)
(***************************************************************************)
NewBuilder ==
    /\ pc = "built"
    /\ fb.state = "none"
    /\ fb' = [state |-> "open", self |-> FilterBuilder_new, called |-> <<>>]
    /\ op' = [name |-> "new"]
    /\ UNCHANGED <<json, pc, root, cur, watch, clientVars>>

Ipv4 ==
    /\ fb.state = "open"
    /\ Len(fb.called) < MaxFamilyCalls
    /\ fb' = [fb EXCEPT !.self = FilterBuilder_ipv4(@), !.called = Append(@, "ipv4")]
    /\ op' = [name |-> "ipv4"]
    /\ UNCHANGED <<json, pc, root, cur, watch, clientVars>>

Ipv6 ==
    /\ fb.state = "open"
    /\ Len(fb.called) < MaxFamilyCalls
    /\ fb' = [fb EXCEPT !.self = FilterBuilder_ipv6(@), !.called = Append(@, "ipv6")]
    /\ op' = [name |-> "ipv6"]
    /\ UNCHANGED <<json, pc, root, cur, watch, clientVars>>

Setter(name, names, out) ==
    /\ fb' = IF out.kind = "ok" THEN [fb EXCEPT !.self = out.value]
             ELSE [state |-> "failed"]
    /\ op' = Seen([name |-> name, arg |-> names, on |-> cur, out |-> out])
    /\ UNCHANGED <<json, pc, root, cur, watch, clientVars>>

SetRegions(names) ==
    /\ fb.state = "open"
    /\ Setter("regions", names, FilterBuilder_regions(fb.self, cur, names))

SetNetworkBorderGroups(names) ==
    /\ fb.state = "open"
    /\ Setter("network_border_groups", names,
              FilterBuilder_network_border_groups(fb.self, cur, names))

SetServices(names) ==
    /\ fb.state = "open"
    /\ Setter("services", names, FilterBuilder_services(fb.self, cur, names))

Build ==
    /\ fb.state = "open"
    /\ fb' = [state |-> "built", filter |-> FilterBuilder_build(fb.self),
              called |-> fb.called]
    /\ op' = [name |-> "build"]
    /\ UNCHANGED <<json, pc, root, cur, watch, clientVars>>

\* AwsIpRanges::filter with the Filter that was built.
FilterBuilt ==
    /\ fb.state = "built"
    /\ cur = root
    /\ Filter(fb.filter)

(***************************************************************************)
(* SpecSetter: a builder on a freshly built index, the setters called with *)
(* lists of names, known to the index or not, then build and filter.       *)
(***************************************************************************)
SetterNets4 == {V4(10, 0, 0, 0, 8)}

SetterNames == {"us-east-1", "us-west-1", "EC2"}

InitSetter ==
    InitWith(Manifests(OneHeader,
                Rows(SetterNets4, Regions, {"us-east-1"}, Services), {}),
             TRUE)

RegionsStep == \E names \in SeqsUpTo(SetterNames, MaxNames) : SetRegions(names)

NetworkBorderGroupsStep ==
    \E names \in SeqsUpTo(SetterNames, MaxNames) : SetNetworkBorderGroups(names)

ServicesStep == \E names \in SeqsUpTo(SetterNames, MaxNames) : SetServices(names)

NextSetter ==
    \/ FromJson
    \/ NewBuilder
    \/ RegionsStep
    \/ NetworkBorderGroupsStep
    \/ ServicesStep
    \/ Build
    \/ FilterBuilt

SpecSetter == InitSetter /\ [][NextSetter]_vars

(***************************************************************************)
(* SpecFamily: a builder on a freshly built index with rows of both        *)
(* families, ipv4() and ipv6() called in any order, then build and filter. *)
(***************************************************************************)
InitFamily ==
    InitWith(Manifests(OneHeader,
                Rows(ChainNets4, Regions, {"us-east-1"}, {"EC2"}),
                Rows(ChainNets6, Regions, {"us-east-1"}, {"EC2"})),
             TRUE)

NextFamily ==
    \/ FromJson
    \/ NewBuilder
    \/ Ipv4
    \/ Ipv6
    \/ Build
    \/ FilterBuilt

SpecFamily == InitFamily /\ [][NextFamily]_vars

(***************************************************************************)
(* The Client calls.  get_json runs in steps: its head up to the first     *)
(* GET, then one step per GET (with what follows it up to the next sleep   *)
(* or the return) and one per sleep.  A GET ends in a transport error or   *)
(* a body and takes some time; a sleep lasts at least the time asked for.  *)
(***************************************************************************)
Done(result) ==
    [at |-> "done", attempt |-> 0, start_time |-> 0, delay |-> 0,
     cache_exists |-> FALSE, cache_is_fresh |-> FALSE, result |-> result]

\* The thread panicked: the call returns nothing.
Aborted ==
    [at |-> "aborted", attempt |-> 0, start_time |-> 0, delay |-> 0,
     cache_exists |-> FALSE, cache_is_fresh |-> FALSE, result |-> ClientErr("none")]

GetJson ==
    /\ call.at = "idle"
    /\ LET head == get_json_head(client, file, now)
       IN  call' = IF head.then = "return" THEN Done(head.result)
                   ELSE [at |-> "get", attempt |-> 0, start_time |-> now, delay |-> 0,
                         cache_exists |-> head.cache_exists,
                         cache_is_fresh |-> head.cache_is_fresh,
                         result |-> ClientErr("none")]
    /\ hist' = [gets |-> 0, slept |-> 0, file |-> file, called_at |-> now,
                error |-> "none", overflowed |-> FALSE, past |-> hist.past]
    /\ UNCHANGED <<client, now, file, coreVars>>

\* One pass of the loop of get_json_from_url, and the rest of get_json when the
\* loop ends.  checks tells whether the build has overflow checks: an
\* overflowing delay panics with them and wraps without.  A delay of 2^31 ms or
\* more is not below any retry_timeout of the model.
GetAttempt(response, took, checks) ==
    /\ call.at = "get"
    /\ now' = now + took
    /\ LET fetched == IF response.kind = "err" THEN response
                   ELSE validate_json(response.value)
           delay == delay_of(client, call.attempt)
           attempt == call.attempt + 1
       IN  IF fetched.kind = "ok"
           THEN LET cached == cache_json_to_file(file, fetched.value, now')
                IN  /\ file' = cached.file
                    /\ call' = Done(get_json_fetched(cached, fetched.value))
                    /\ hist' = [hist EXCEPT !.gets = @ + 1, !.error = "none"]
           ELSE /\ file' = file
                /\ hist' = [hist EXCEPT !.gets = @ + 1, !.error = fetched.error,
                                        !.overflowed = @ \/ delay.overflow]
                /\ call' =
                    IF delay.overflow /\ checks THEN Aborted
                    ELSE IF /\ FitsInt(delay.value)
                            /\ retry_again(client, now' - call.start_time,
                                           ToInt(delay.value), attempt)
                    THEN [call EXCEPT !.at = "sleep", !.attempt = attempt,
                                      !.delay = ToInt(delay.value)]
                    ELSE Done(get_json_tail(file, call.cache_exists,
                                            call.cache_is_fresh, fetched))
    /\ UNCHANGED <<client, coreVars>>

\* thread::sleep(delay)
Sleep(extra) ==
    /\ call.at = "sleep"
    /\ now' = now + call.delay + extra
    /\ hist' = [hist EXCEPT !.slept = @ + call.delay]
    /\ call' = [call EXCEPT !.at = "get"]
    /\ UNCHANGED <<client, file, coreVars>>

\* The bodies: two manifests without prefixes, a JSON value that is no manifest
\* and a text that is not JSON.
ManifestText(sync_token, create_date) ==
    <<"{\"syncToken\": ", sync_token, ", \"createDate\": ", create_date,
      ", \"prefixes\": [], \"ipv6_prefixes\": []}">>

GoodBody == [text |-> ManifestText("1700000000", "2023-11-14-22-13-20"), valid |-> TRUE]
CachedBody == [text |-> ManifestText("1640995200", "2022-01-01-00-00-00"), valid |-> TRUE]
OtherJsonBody == [text |-> <<"{\"message\": \"Forbidden\"}">>, valid |-> TRUE]
BadBody == [text |-> <<"<html>">>, valid |-> FALSE]

\* json::parse: the manifest a text decodes to.
parse(text) ==
    IF \E h \in Headers : text = ManifestText(h[1], h[2])
    THEN [decodes |-> TRUE, sync_token |-> text[2], create_date |-> text[4],
          prefixes |-> <<>>, ipv6_prefixes |-> <<>>]
    ELSE Undecodable

Responses == {ClientErr("transport"), Ok(GoodBody), Ok(OtherJsonBody), Ok(BadBody)}

GetTimes == {0, 1, 3}

Oversleeps == {0, 1}

OverflowChecks == BOOLEAN

GetStep ==
    \E response \in Responses, took \in GetTimes, checks \in OverflowChecks :
        GetAttempt(response, took, checks)

SleepStep == \E extra \in Oversleeps : Sleep(extra)

NextClient ==
    \/ GetJson
    \/ GetStep
    \/ SleepStep

InitCore ==
    /\ json = Undecodable
    /\ pc = "start"
    /\ root = AwsIpRangesDefault
    /\ cur = AwsIpRangesDefault
    /\ op = NoOp
    /\ watch = FALSE
    /\ fb = NoBuilder

(***************************************************************************)
(* SpecRetry: get_json without a cache file, over the retry settings.      *)
(***************************************************************************)
RetryClients ==
    [cache_time : {1}, retry_count : 0..MaxRetryCount, retry_initial_delay : {0, 1, 2},
     retry_backoff_factor : {0, 1, 2}, retry_timeout : {0, 2, 6, 50}]

InitRetry ==
    /\ InitCore
    /\ client \in RetryClients
    /\ now = 0
    /\ file \in {[NoFile EXCEPT !.writable = w] : w \in BOOLEAN}
    /\ call = Idle
    /\ hist = NoHist

SpecRetry == InitRetry /\ [][NextClient]_vars

(***************************************************************************)
(* SpecCache: get_json over the states of the cache file: missing or       *)
(* present, its modification time ahead of the clock, within cache_time    *)
(* or older, its content JSON or not, readable or not, writable or not.    *)
(***************************************************************************)
CacheClients ==
    [cache_time : {0, 1}, retry_count : 1..(MaxRetryCount - 1), retry_initial_delay : {1},
     retry_backoff_factor : {2}, retry_timeout : {10}]

StartTime == 5000

CacheFiles ==
    {[NoFile EXCEPT !.writable = w] : w \in BOOLEAN} \cup
    [exists : {TRUE}, body : {CachedBody, BadBody},
     modified : {StartTime + 1, StartTime, StartTime - 999, StartTime - 1000,
                 StartTime - 1999, StartTime - 2000},
     readable : BOOLEAN, writable : BOOLEAN]

InitCache ==
    /\ InitCore
    /\ client \in CacheClients
    /\ now = StartTime
    /\ file \in CacheFiles
    /\ call = Idle
    /\ hist = NoHist

SpecCache == InitCache /\ [][NextClient]_vars

(***************************************************************************)
(* SpecSupernet: is_supernet_of applied to a pair of networks, of one      *)
(* family or of two, with and without host bits.                           *)
(***************************************************************************)
SupernetNets ==
    {V4(0, 0, 0, 0, 0), V4(10, 0, 0, 0, 7), V4(10, 0, 0, 0, 8), V4(10, 0, 0, 3, 8),
     V4(10, 1, 0, 0, 16), V4(10, 0, 0, 1, 32), V4(10, 0, 0, 5, 32), V4(11, 0, 0, 0, 8),
     V6(0, 0, 0, 0), V6(8193, 3512, 0, 32), V6h(8193, 3512, 0, 1, 32),
     V6h(8193, 3512, 0, 1, 64), V6h(8193, 3512, 0, 1, 128), V6(2560, 0, 0, 8)}

IsSupernetOf ==
    /\ op.name = "pair"
    /\ op' = [name |-> "is_supernet_of", supernet |-> op.supernet, subnet |-> op.subnet,
              out |-> is_supernet_of(op.supernet, op.subnet)]
    /\ UNCHANGED <<json, pc, root, cur, watch, fb, clientVars>>

InitSupernet ==
    /\ json = Undecodable
    /\ pc = "start"
    /\ root = AwsIpRangesDefault
    /\ cur = AwsIpRangesDefault
    /\ op \in [name : {"pair"}, supernet : SupernetNets, subnet : SupernetNets]
    /\ watch = TRUE
    /\ fb = NoBuilder
    /\ client = DefaultClient
    /\ now = 0
    /\ file = NoFile
    /\ call = Idle
    /\ hist = NoHist

NextSupernet == IsSupernetOf

SpecSupernet == InitSupernet /\ [][NextSupernet]_vars

(***************************************************************************)
(* The command line (main.rs).  get_ranges is the library's: the body      *)
(* get_json returned, decoded by from_json.  An argument naming a prefix   *)
(* is its text with the network str::parse reads from it, if any.  The     *)
(* exit code is the Rust runtime's: 0 when main returns Ok, 1 when it      *)
(* returns Err, 101 when it panics.                                        *)
(***************************************************************************)
get_ranges(got) == IF got.kind = "err" THEN got ELSE from_json(got.value)

\* The networks of the texts that parse, in the texts' order.
RECURSIVE ParsedOf(_)
ParsedOf(texts) ==
    IF texts = <<>> THEN <<>>
    ELSE IF Head(texts).parsed.some
         THEN <<Head(texts).parsed.value>> \o ParsedOf(Tail(texts))
         ELSE ParsedOf(Tail(texts))

parse_prefixes(args) ==
    IF args.prefixes.some THEN Some(ParsedOf(args.prefixes.value)) ELSE None

build_filter(args, aws_ip_ranges) ==
    LET Found(names, known) ==
            IF names.some
            THEN Some({names.value[i] : i \in {n \in DOMAIN names.value :
                            get_rc_str_from_set(names.value[n], known).some}})
            ELSE None
    IN  [prefix_type |->
            IF args.ipv4 /\ ~args.ipv6 THEN Some("IPv4")
            ELSE IF ~args.ipv4 /\ args.ipv6 THEN Some("IPv6")
            ELSE None,
         regions |-> Found(args.regions, aws_ip_ranges.regions),
         network_border_groups |->
            Found(args.network_border_groups, aws_ip_ranges.network_border_groups),
         services |-> Found(args.services, aws_ip_ranges.services)]

\* main from "Apply Filters" on: the index it displays.
display_aws_ip_ranges(args, aws_ip_ranges, search_results) ==
    LET flt == IF \/ args.ipv4
                  \/ args.ipv6
                  \/ args.regions.some
                  \/ args.network_border_groups.some
                  \/ args.services.some
               THEN Some(build_filter(args, aws_ip_ranges))
               ELSE None
    IN  IF flt.some
        THEN IF search_results.some
             THEN filter(search_results.value.aws_ip_ranges, flt.value)
             ELSE filter(aws_ip_ranges, flt.value)
        ELSE IF search_results.some THEN search_results.value.aws_ip_ranges
        ELSE aws_ip_ranges

\* main from "Prefix Search" on, with the index get_ranges returned.
main_with(args, aws_ip_ranges) ==
    LET search_prefixes == parse_prefixes(args)
        searched == IF search_prefixes.some
                    THEN search(aws_ip_ranges, search_prefixes.value)
                    ELSE Returned(None)
    IN  IF searched.kind = "panic" THEN [exit |-> 101, displayed |-> None]
        ELSE [exit |-> 0,
              displayed |->
                Some(display_aws_ip_ranges(args, aws_ip_ranges,
                        IF search_prefixes.some THEN Some(searched.value) ELSE None))]

main(args, got) ==
    LET aws_ip_ranges == get_ranges(got)
    IN  IF aws_ip_ranges.kind = "err" THEN [exit |-> 1, displayed |-> None]
        ELSE IF aws_ip_ranges.kind = "panic" THEN [exit |-> 101, displayed |-> None]
        ELSE main_with(args, aws_ip_ranges.value)

(***************************************************************************)
(* SpecCli: one run of the command line over a manifest and arguments.     *)
(***************************************************************************)
PrefixArg(text, parsed) == [text |-> text, parsed |-> parsed]

PrefixArgs ==
    {PrefixArg("10.0.0.1", Some(V4(10, 0, 0, 1, 32))),
     PrefixArg("1.1.1.1", Some(V4(1, 1, 1, 1, 32))),
     PrefixArg("10.0.0.0/4", Some(V4(10, 0, 0, 0, 4))),
     PrefixArg("bogus", None)}

CliArgs ==
    [ipv4 : BOOLEAN, ipv6 : BOOLEAN,
     regions : {None, Some(<<"us-east-1">>), Some(<<"eu-north-9">>)},
     network_border_groups : {None, Some(<<"us-west-1">>)},
     services : {None, Some(<<"S3">>)},
     prefixes : {None} \cup {Some(<<p>>) : p \in PrefixArgs} \cup
                {Some(<<p, q>>) : p \in {PrefixArg("10.0.0.1", Some(V4(10, 0, 0, 1, 32)))},
                                  q \in {PrefixArg("1.1.1.1", Some(V4(1, 1, 1, 1, 32)))}}]

Main(got) ==
    /\ pc = "start"
    /\ op.name = "args"
    /\ LET out == main(op.args, got)
       IN  /\ op' = [name |-> "main", args |-> op.args, got |-> got.kind,
                     exit |-> out.exit, displayed |-> out.displayed]
           /\ pc' = "exited"
    /\ UNCHANGED <<json, root, cur, watch, fb, clientVars>>

InitCli ==
    /\ json \in Manifests({<<"1700000000", "2023-11-14-22-13-20">>},
                    Rows(ChainNets4, {"us-east-1"}, {"us-east-1"}, Services),
                    Rows(ChainNets6, {"us-west-1"}, {"us-west-1"}, {"EC2"}))
    /\ pc = "start"
    /\ root = AwsIpRangesDefault
    /\ cur = AwsIpRangesDefault
    /\ op \in [name : {"args"}, args : CliArgs]
    /\ watch = TRUE
    /\ fb = NoBuilder
    /\ client = DefaultClient
    /\ now = 0
    /\ file = NoFile
    /\ call = Idle
    /\ hist = NoHist

NextCli == \E got \in {ClientErr("transport"), Ok(json)} : Main(got)

SpecCli == InitCli /\ [][NextCli]_vars

(***************************************************************************)
(* SpecDelay: get_json without a cache file, under the default settings    *)
(* and under settings whose delay the u64 cannot hold.                     *)
(***************************************************************************)
DelayClients ==
    {DefaultClient,
     [DefaultClient EXCEPT !.retry_initial_delay = 100, !.retry_backoff_factor = 3],
     [DefaultClient EXCEPT !.retry_initial_delay = 0, !.retry_backoff_factor = 4194304]}

InitDelay ==
    /\ InitCore
    /\ client \in DelayClients
    /\ now = 0
    /\ file = NoFile
    /\ call = Idle
    /\ hist = NoHist

SpecDelay == InitDelay /\ [][NextClient]_vars

\* SpecDelay with its steps taken: a GET that was sent returns, and
\* thread::sleep returns when its time is over.
SpecDelayLive == SpecDelay /\ WF_vars(GetStep) /\ WF_vars(SleepStep)

(***************************************************************************)
(* SpecCalls: get_ranges called again and again on one client, time        *)
(* passing between the calls.  A call is get_json, in its steps, and then  *)
(* from_json on the body it returned; hist.past keeps, for each call that  *)
(* returned, when it was made, its GETs, the result of get_json, the       *)
(* outcome of get_ranges and the cache file before and after.              *)
(***************************************************************************)
MaxCalls == 2

\* Client::get_ranges on the result get_json gave.
get_ranges_of(got) ==
    get_ranges(IF got.kind = "ok" THEN Ok(parse(got.value.text)) ELSE got)

Return(wait) ==
    /\ call.at = "done"
    /\ Len(hist.past) < MaxCalls - 1
    /\ hist' = [hist EXCEPT !.past =
                    Append(@, [called_at |-> hist.called_at, gets |-> hist.gets,
                               result |-> call.result,
                               ranges |-> get_ranges_of(call.result).kind,
                               before |-> hist.file, file |-> file])]
    /\ call' = Idle
    /\ now' = now + wait
    /\ UNCHANGED <<client, file, coreVars>>

Waits == {0, 1000, 1500, 2000}

ReturnStep == \E wait \in Waits : Return(wait)

CallClients ==
    [cache_time : {1}, retry_count : {1, 2}, retry_initial_delay : {1},
     retry_backoff_factor : {2}, retry_timeout : {10}]

CallFiles ==
    {[NoFile EXCEPT !.writable = w] : w \in BOOLEAN} \cup
    {[exists |-> TRUE, body |-> CachedBody, modified |-> StartTime - 2000,
      readable |-> TRUE, writable |-> TRUE]}

InitCalls ==
    /\ InitCore
    /\ client \in CallClients
    /\ now = StartTime
    /\ file \in CallFiles
    /\ call = Idle
    /\ hist = NoHist

NextCalls ==
    \/ GetJson
    \/ GetStep
    \/ SleepStep
    \/ ReturnStep

SpecCalls == InitCalls /\ [][NextCalls]_vars

(***************************************************************************)
(* Properties.                                                             *)
(***************************************************************************)

\* a is a supernet of b: same family, a no longer than b, and b's address under
\* a's mask is a's network address.
Covers(a, b) ==
    /\ a.fam = b.fam
    /\ a.prefix <= b.prefix
    /\ network([fam |-> b.fam, addr |-> b.addr, prefix |-> a.prefix]) = network(a)

IsCanonical(n) == n.addr = network(n)

Supernets(ranges, q) == {r \in Values(ranges.prefixes) : Covers(r.prefix, q)}

\* C1: get_supernet_prefixes(Q) returns exactly the records of the index whose
\* network is a supernet of Q, whatever their prefix length, and None when there
\* is none.
C1_CoveringIsAllSupernets ==
    (op.name = "get_supernet_prefixes" /\ op.out.kind = "returned") =>
        op.out.value = IF Supernets(op.on, op.arg) = {} THEN None
                       ELSE Some(Supernets(op.on, op.arg))

\* C2: get_longest_match_prefix(Q) is None exactly when get_supernet_prefixes(Q)
\* is None, and otherwise is a supernet of Q at least as long as every record
\* get_supernet_prefixes(Q) returns.
C2_LongestMatchIsLongestCovering ==
    (op.name = "get_longest_match_prefix" /\ op.out.kind = "returned") =>
        LET covering == get_supernet_prefixes(op.on, op.arg).value
        IN  /\ op.out.value.some <=> covering.some
            /\ op.out.value.some =>
                /\ Covers(op.out.value.value.prefix, op.arg)
                /\ \A r \in covering.value :
                        r.prefix.prefix <= op.out.value.value.prefix.prefix

\* C3: get_prefix(N) returns the record stored under the canonical form of N,
\* and nothing when the index has none.
C3_GetPrefixCanonicalizes ==
    op.name = "get_prefix" =>
        op.out.value =
            IF network_prefix(op.arg) \in DOMAIN op.on.prefixes
            THEN Some(op.on.prefixes[network_prefix(op.arg)])
            ELSE None

\* C4: every key of a built index equals the prefix of the record stored under
\* it and is a canonical network.
C4_KeysAreCanonical ==
    pc = "built" =>
        \A k \in DOMAIN cur.prefixes : cur.prefixes[k].prefix = k /\ IsCanonical(k)

Closed(ranges) ==
    /\ ranges.regions = {r.region : r \in Values(ranges.prefixes)}
    /\ ranges.network_border_groups =
            {r.network_border_group : r \in Values(ranges.prefixes)}
    /\ ranges.services = UNION {r.services : r \in Values(ranges.prefixes)}

\* C5: in the built index and in every index derived from it by filters and
\* searches, a name is in regions / network_border_groups / services iff some
\* record has it as its region / network border group / one of its services.
C5_AttributeSetsClosed == pc = "built" => Closed(root) /\ Closed(cur)

C5_Witness ==
    /\ pc = "built"
    /\ op.name = "filter"
    /\ DOMAIN cur.prefixes # {}
    /\ cur.regions # root.regions
    /\ cur.regions # cur.network_border_groups

AllRows(j) ==
    {j.prefixes[i] : i \in 1..Len(j.prefixes)}
        \cup {j.ipv6_prefixes[i] : i \in 1..Len(j.ipv6_prefixes)}

NoConflict(j) ==
    \A a, b \in AllRows(j) :
        a.ip_prefix = b.ip_prefix =>
            a.region = b.region /\ a.network_border_group = b.network_border_group

Reorderings(s) ==
    {[i \in 1..Len(s) |-> s[p[i]]] :
        p \in {q \in [1..Len(s) -> 1..Len(s)] :
                \A i, k \in 1..Len(s) : q[i] = q[k] => i = k}}

C7_ConflictIsAnError ==
    (op.name = "from_json" /\ json.decodes /\ ~NoConflict(json)) => op.out = "err"

\* C8: filter(F) keeps exactly the records, unmodified, whose family is F's
\* prefix type (when set), whose region is in F.regions (when set), whose network
\* border group is in F.network_border_groups (when set) and one of whose
\* services is in F.services (when set).
C8_FilterKeepsExactlyMatching ==
    op.name = "filter" =>
        LET parent == op.on.prefixes
            F == op.arg
            Keeps(r) ==
                /\ \/ F.prefix_type = None
                   \/ F.prefix_type = Some("IPv4") /\ r.prefix.fam = "V4"
                   \/ F.prefix_type = Some("IPv6") /\ r.prefix.fam = "V6"
                /\ F.regions = None \/ r.region \in F.regions.value
                /\ \/ F.network_border_groups = None
                   \/ r.network_border_group \in F.network_border_groups.value
                /\ F.services = None \/ \E x \in r.services : x \in F.services.value
        IN  /\ DOMAIN cur.prefixes = {k \in DOMAIN parent : Keeps(parent[k])}
            /\ \A k \in DOMAIN cur.prefixes : cur.prefixes[k] = parent[k]

C8_Witness ==
    /\ op.name = "filter"
    /\ op.arg.prefix_type.some /\ op.arg.regions.some
    /\ op.arg.network_border_groups.some /\ op.arg.services.some
    /\ Cardinality(op.arg.services.value) = 2
    /\ Cardinality(DOMAIN op.on.prefixes) = 2
    /\ Cardinality(DOMAIN cur.prefixes) = 1

\* C9: the index derived by any chain of filters and searches has the
\* sync_token and the create_date of the index the chain started from.
C9_MetadataPreserved ==
    pc = "built" =>
        cur.sync_token = root.sync_token /\ cur.create_date = root.create_date

C9_Witness ==
    /\ pc = "built"
    /\ op.name \in {"filter", "search"}
    /\ DOMAIN cur.prefixes = {}
    /\ DOMAIN root.prefixes # {}
    /\ cur.sync_token = json.sync_token

\* C10: when search(Qs) returns, the keys of prefix_matches and the set
\* prefixes_not_found are disjoint and together are the networks of Qs.
C10_SearchPartition ==
    (op.name = "search" /\ op.out.kind = "returned") =>
        LET found == DOMAIN op.out.value.prefix_matches
            missed == op.out.value.prefixes_not_found
        IN  /\ found \cap missed = {}
            /\ found \cup missed = {op.arg[i] : i \in 1..Len(op.arg)}

C10_Witness ==
    /\ op.name = "search"
    /\ op.out.kind = "returned"
    /\ DOMAIN op.out.value.prefix_matches # {}
    /\ op.out.value.prefixes_not_found # {}

QuerySet(values) == {values[i] : i \in 1..Len(values)}

\* C11: when search(Qs) returns, a query Q of Qs is in prefixes_not_found exactly
\* when the index has no record that is a supernet of Q, each other query is
\* mapped to exactly the records that are supernets of it, and the records of
\* the derived index are exactly the union of these sets.
C11_SearchIsCovering ==
    (op.name = "search" /\ op.out.kind = "returned") =>
        LET sr == op.out.value
            Qs == QuerySet(op.arg)
        IN  /\ sr.prefixes_not_found = {Q \in Qs : Supernets(op.on, Q) = {}}
            /\ DOMAIN sr.prefix_matches = {Q \in Qs : Supernets(op.on, Q) # {}}
            /\ \A Q \in DOMAIN sr.prefix_matches :
                    sr.prefix_matches[Q] = Supernets(op.on, Q)
            /\ Values(sr.aws_ip_ranges.prefixes) =
                    UNION {Supernets(op.on, Q) : Q \in Qs}

Unknown(names, set) == {i \in 1..Len(names) : names[i] \notin set}

SetOf(ranges, attribute) ==
    IF attribute = "regions" THEN ranges.regions
    ELSE IF attribute = "network_border_groups" THEN ranges.network_border_groups
    ELSE ranges.services

TextOf(attribute) ==
    IF attribute = "regions" THEN "Invalid region"
    ELSE IF attribute = "network_border_groups" THEN "Invalid network border group"
    ELSE "Invalid service"

\* C12: regions / network_border_groups / services fail, with an error that
\* names the kind of attribute and the first unknown name, exactly when one of
\* the names supplied is not in the borrowed index's set of that kind; when they
\* succeed the field holds exactly the names supplied; every set of a builder
\* and of the Filter built from it holds only names of the index.
C12_SettersFailOnUnknownNames ==
    /\ op.name \in {"regions", "network_border_groups", "services"} =>
        LET known == SetOf(op.on, op.name)
            unknown == Unknown(op.arg, known)
        IN  /\ op.out.kind = "err" <=> unknown # {}
            /\ op.out.kind = "err" =>
                /\ fb.state = "failed"
                /\ op.out.message =
                    <<TextOf(op.name),
                      op.arg[CHOOSE i \in unknown : \A k \in unknown : i <= k]>>
            /\ op.out.kind = "ok" =>
                /\ fb.state = "open"
                /\ fb.self[op.name] = Some(QuerySet(op.arg))
    /\ fb.state \in {"open", "built"} =>
        LET f == IF fb.state = "open" THEN fb.self ELSE fb.filter
        IN  /\ f.regions.some => f.regions.value \subseteq root.regions
            /\ f.network_border_groups.some =>
                    f.network_border_groups.value \subseteq root.network_border_groups
            /\ f.services.some => f.services.value \subseteq root.services
    /\ op.name = "build" => fb.state = "built"

C12_Witness ==
    /\ fb.state = "failed"
    /\ op.name = "services"
    /\ op.arg = <<"EC2", "us-east-1">>
    /\ "EC2" \in op.on.services

FamilyKeys(ranges, fams) == {k \in DOMAIN ranges.prefixes : k.fam \in fams}

\* C13: the Filter built from a fresh builder after ipv4() then ipv6(), or ipv6()
\* then ipv4(), has no family restriction: its ipv4() and ipv6() are both true and
\* filter keeps the records of both families; after ipv4() alone it is IPv4-only,
\* after ipv6() alone IPv6-only.
C13_BothFamiliesClearRestriction ==
    fb.state = "built" =>
        LET f == fb.filter
            Kept(fams) ==
                op.name = "filter" => DOMAIN cur.prefixes = FamilyKeys(root, fams)
        IN  /\ fb.called \in {<<"ipv4", "ipv6">>, <<"ipv6", "ipv4">>} =>
                /\ Filter_ipv4(f) /\ Filter_ipv6(f)
                /\ Kept({"V4", "V6"})
            /\ fb.called = <<"ipv4">> =>
                /\ Filter_ipv4(f) /\ ~Filter_ipv6(f)
                /\ Kept({"V4"})
            /\ fb.called = <<"ipv6">> =>
                /\ ~Filter_ipv4(f) /\ Filter_ipv6(f)
                /\ Kept({"V6"})

C13_Witness ==
    /\ fb.state = "built"
    /\ fb.called = <<"ipv4", "ipv6">>
    /\ op.name = "filter"
    /\ FamilyKeys(cur, {"V4"}) # {}
    /\ FamilyKeys(cur, {"V6"}) # {}

\* C14: get_json_from_url never makes more GETs than retry_count.
C14_AttemptsWithinRetryCount == hist.gets <= client.retry_count

\* C15: the backoff sleeps of one get_json_from_url add up to at most
\* retry_timeout milliseconds.
C15_SleepsWithinTimeout == hist.slept <= client.retry_timeout

C15_Witness ==
    /\ call.at = "done"
    /\ hist.gets = 3
    /\ hist.slept = 3
    /\ client.retry_timeout = 6

\* Every GET of the call so far has failed.
NoGetSucceeded == hist.gets = 0 \/ hist.error # "none"

\* C16: when no GET succeeds and the cache file exists, can be read and holds
\* JSON, get_json returns Ok with the content of the file, whatever the file's
\* modification time.
C16_CacheServedWhenUrlFails ==
    (/\ call.at = "done"
     /\ NoGetSucceeded
     /\ hist.file.exists /\ hist.file.readable /\ hist.file.body.valid) =>
        call.result = Ok(hist.file.body)

\* The age of the cache file when get_json was called is known and is at most
\* cache_time seconds.
FreshAtCall ==
    /\ hist.file.exists
    /\ hist.file.modified <= hist.called_at
    /\ hist.called_at - hist.file.modified <= client.cache_time * 1000

C18_WriteFailureStillOk ==
    (/\ call.at = "done"
     /\ hist.gets > 0 /\ hist.error = "none"
     /\ ~hist.file.writable) =>
        /\ call.result \in {Ok(GoodBody), Ok(OtherJsonBody)}
        /\ file = hist.file

C18_Witness ==
    /\ call.at = "done"
    /\ hist.gets = 2 /\ hist.error = "none"
    /\ ~hist.file.writable
    /\ hist.file.exists /\ hist.file.body = CachedBody /\ hist.file.readable
    /\ hist.called_at - hist.file.modified = 2000

\* C19: get_json returns an error only after a GET was made and the last GET
\* failed, the cache file could not be read as JSON, and the error is that of
\* the last GET.
C19_ErrorOnlyFromUrl ==
    (call.at = "done" /\ call.result.kind = "err") =>
        /\ hist.gets > 0
        /\ hist.error # "none"
        /\ call.result = ClientErr(hist.error)
        /\ get_json_from_file(hist.file).kind = "err"

\* C20: is_supernet_of(a, b) is true exactly when a and b are of one family, a's
\* prefix is no longer than b's, and b's address under a's mask is a's address;
\* it is false for networks of two families.
C20_IsSupernetOfIsMaskMatch ==
    op.name = "is_supernet_of" =>
        LET a == op.supernet
            b == op.subnet
        IN  op.out =
                (/\ a.fam = b.fam
                 /\ a.prefix <= b.prefix
                 /\ network([fam |-> b.fam, addr |-> b.addr, prefix |-> a.prefix]) = a.addr)

\* C21: a run of the command line that displays an index exits with code 1 when
\* that index, the outcome of the search and the filter, has no prefixes, and
\* with code 0 when it has some.
C21_ExitCodeTellsEmptyDisplay ==
    (op.name = "main" /\ op.displayed.some) =>
        op.exit = (IF DOMAIN op.displayed.value.prefixes = {} THEN 1 ELSE 0)

\* C26: the delay of every failed attempt is computed without overflow of the
\* u64; the sleep after the k-th failed attempt (k from 0) is exactly
\* retry_initial_delay * retry_backoff_factor^k milliseconds; and under the
\* default settings, with requests that fail at once, the call makes exactly 4
\* GETs and sleeps 200, 400 and 800 ms between them.
C26_DelayIsExactProduct ==
    /\ ~hist.overflowed
    /\ call.at # "aborted"
    /\ call.at = "sleep" =>
        call.delay =
            (IF client.retry_initial_delay = 0 THEN 0
             ELSE client.retry_initial_delay *
                    (client.retry_backoff_factor ^ (call.attempt - 1)))
    /\ (/\ client = DefaultClient
        /\ call.at = "done"
        /\ call.result.kind = "err"
        /\ now - hist.called_at = hist.slept) =>
            (hist.gets = 4 /\ hist.slept = 200 + 400 + 800)

\* C22: every call of get_json_from_url ends, with an Ok or an Err, when each
\* GET returns: a call that is in its retry loop (sending a GET or asleep)
\* reaches the end of get_json with a result, and it sleeps for another attempt
\* only while attempts are left.
C22_GetJsonFromUrlTerminates ==
    /\ (call.at \in {"get", "sleep"}) ~> (call.at = "done")
    /\ [](call.at = "sleep" => call.attempt < client.retry_count)

\* The two scans with the lower bound of the range at prefix length 0 instead of
\* 8 and 16: the lower bound is then the least key of the family and the range
\* is never empty-ended.
ScanFromZero(ranges, value) ==
    RangeKeys(ranges.prefixes, new_network_prefix(value, 0).value, network_prefix(value))

SupernetsFromZero(ranges, value) ==
    LET keys == ScanFromZero(ranges, value)
        aws_ip_prefixes ==
            {ranges.prefixes[keys[i]] : i \in
                {n \in 1..Len(keys) :
                    is_supernet_of(ranges.prefixes[keys[n]].prefix, value)}}
    IN  IF aws_ip_prefixes # {} THEN Returned(Some(aws_ip_prefixes)) ELSE Returned(None)

LongestMatchFromZero(ranges, value) ==
    Returned(FindLast(ranges.prefixes, ScanFromZero(ranges, value), value))

RecordsAtLeastLowerBound(ranges) ==
    \A k \in DOMAIN ranges.prefixes :
        k.prefix >= (IF k.fam = "V4" THEN LowerBoundBitsV4 ELSE LowerBoundBitsV6)

\* C23: on an index whose records all have a prefix length of at least 8 (IPv4)
\* and 16 (IPv6), get_supernet_prefixes and get_longest_match_prefix give, for
\* a query of any prefix length, the outcome of the same scan started at prefix
\* length 0.
C23_LowerBoundLosesNothing ==
    (op.name \in {"get_supernet_prefixes", "get_longest_match_prefix"}
        /\ RecordsAtLeastLowerBound(op.on)) =>
        /\ op.name = "get_supernet_prefixes" =>
                op.out = SupernetsFromZero(op.on, op.arg)
        /\ op.name = "get_longest_match_prefix" =>
                op.out = LongestMatchFromZero(op.on, op.arg)

\* C27: get_supernet_prefixes, get_longest_match_prefix and search return for
\* every index and every query, whatever its prefix length and host bits: no
\* call aborts.
C27_LookupsAreTotal ==
    op.name \in {"get_supernet_prefixes", "get_longest_match_prefix", "search"} =>
        op.out.kind = "returned"

\* C24: the records get_supernet_prefixes(Q) returns, taken in their order (the
\* order of AwsIpPrefix, which is the order of their keys), have strictly
\* increasing prefix lengths, each one's network a supernet of the next one's;
\* so the record get_longest_match_prefix(Q) finds first, walking the keys
\* downwards, is the one of the greatest prefix length.
C24_CoveringAscendsByLength ==
    (op.name = "get_supernet_prefixes" /\ op.out.kind = "returned" /\ op.out.value.some) =>
        LET covering == op.out.value.value
            longest == get_longest_match_prefix(op.on, op.arg).value
        IN  /\ \A r1, r2 \in covering :
                AwsIpPrefixLess(r1, r2) =>
                    /\ NetLess(r1.prefix, r2.prefix)
                    /\ r1.prefix.prefix < r2.prefix.prefix
                    /\ Covers(r1.prefix, r2.prefix)
            /\ longest.some
            /\ longest.value \in covering
            /\ \A r \in covering : r.prefix.prefix <= longest.value.prefix.prefix

\* C25: get_json never returns a body that is not JSON and never writes one to
\* the cache file; a response that is not JSON is a failed attempt, followed by
\* the sleep a transport error is followed by or by the end of the loop; and a
\* cache file that does not hold JSON is not served.
C25_OnlyJsonReturnedAndCached ==
    call.at # "idle" =>
        /\ (call.at = "done" /\ call.result.kind = "ok") => call.result.value.valid
        /\ file # hist.file => file.body.valid
        /\ hist.error = "Invalid JSON" =>
            /\ hist.gets >= 1
            /\ call.at \in {"sleep", "get", "done"}
            /\ call.at \in {"sleep", "get"} =>
                /\ call.attempt = hist.gets
                /\ call.delay = ToInt(delay_of(client, call.attempt - 1).value)
            /\ call.at = "done" =>
                call.result \in {ClientErr("Invalid JSON"), Ok(hist.file.body)}

C25_Witness ==
    /\ call.at = "done"
    /\ call.result = ClientErr("Invalid JSON")
    /\ hist.gets >= 2
    /\ hist.file.exists
    /\ hist.file.readable
    /\ ~hist.file.body.valid
    /\ FreshAtCall
    /\ file = hist.file

\* C28: the family restriction of a builder, and of the Filter built from it,
\* after any sequence of ipv4() and ipv6() calls depends only on which of the two
\* were called: none after no call, IPv4 after ipv4() only, IPv6 after ipv6()
\* only, none after both, whatever the order and the number of the calls.
C28_FamilyDependsOnCalledSet ==
    fb.state \in {"open", "built"} =>
        LET called == {fb.called[i] : i \in DOMAIN fb.called}
            prefix_type == IF fb.state = "open" THEN fb.self.prefix_type
                           ELSE fb.filter.prefix_type
        IN  prefix_type = (IF called = {"ipv4"} THEN Some("IPv4")
                           ELSE IF called = {"ipv6"} THEN Some("IPv6")
                           ELSE None)

\* C29: a cache file the client wrote holds a body that decodes as a manifest;
\* and when get_ranges failed on a body that is JSON but no manifest, the next
\* get_ranges does not fail on that body again, read from the cache, without a
\* GET.
C29_CacheHoldsManifest ==
    call.at = "done" =>
        /\ file # hist.file => from_json(parse(file.body.text)).kind = "ok"
        /\ hist.past # <<>> =>
            LET last == hist.past[Len(hist.past)]
            IN  (/\ last.result.kind = "ok"
                 /\ last.ranges = "err"
                 /\ last.gets >= 1
                 /\ call.result = last.result) => hist.gets >= 1

\* The last call that returned got its body from the URL and wrote it to the
\* cache file: it made a GET, returned Ok and left the file changed.
LastCallWroteCache ==
    /\ hist.past # <<>>
    /\ LET last == hist.past[Len(hist.past)]
       IN  /\ last.gets >= 1
           /\ last.result.kind = "ok"
           /\ last.file # last.before

\* C30: when get_json got a body from the URL and wrote the cache file, the file
\* holds that body; a following get_json made while the file is at most
\* cache_time seconds old returns that body without a GET; and one made when the
\* file is older than cache_time seconds makes a GET.
C30_WriteThroughThenHit ==
    (call.at # "idle" /\ LastCallWroteCache) =>
        LET last == hist.past[Len(hist.past)]
            age == hist.called_at - last.file.modified
        IN  /\ last.file.exists
            /\ last.file.body = last.result.value
            /\ age <= client.cache_time * 1000 =>
                /\ call.at = "done"
                /\ hist.gets = 0
                /\ call.result = last.result
            /\ age > client.cache_time * 1000 =>
                ~(call.at = "done" /\ hist.gets = 0)

====
